---- MODULE Spec2Model ----
(***************************************************************************)
(* A model of PyJSONCanvas: the Canvas document (jsoncanvas.py) and its    *)
(* node / edge data model (models.py).                                     *)
(*                                                                         *)
(* Python values are represented as follows.                               *)
(*   - identifiers, text, file and url strings, and the integers x, y,     *)
(*     width, height are TLA+ strings and integers;                        *)
(*   - every field that can hold None, an Enum member, a Color object or a *)
(*     plain str is a tagged record [k |-> kind, v |-> payload], so that a *)
(*     str "text" and the member NodeType("text") are different values;    *)
(*   - an object is a record with a cls field naming its class;            *)
(*   - the outcome of a call is [raised |-> exception name or "none", ...].*)
(***************************************************************************)
EXTENDS Integers, Sequences, FiniteSets, TLC

VARIABLES
    nodes,                  \* Canvas.nodes
    edges,                  \* Canvas.edges
    call,                   \* the last operation called: [name, arg]
    raised,                 \* the exception it raised, or "none"
    ret,                    \* the value it returned (None when it raised)
    text,                   \* the JSON text the codec reads and writes
    a_group_node,           \* the GroupNode the containment resolver is called on
    remaining_canvas_nodes, \* the candidate nodes handed to the resolver
    stack                   \* the frames of the resolver's recursive calls in progress

vars == <<nodes, edges, call, raised, ret, text, a_group_node, remaining_canvas_nodes, stack>>

(***************************************************************************)
(* Bounds of the model.                                                    *)
(***************************************************************************)
MaxNodeIds == 2

IdNames == <<"A", "B", "C", "D">>

NodeIds == {IdNames[i] : i \in 1..MaxNodeIds}

EdgeIds == {"e1", "e2"}

(***************************************************************************)
(* Tagged values.                                                          *)
(***************************************************************************)
None == [k |-> "None", v |-> ""]

Str(s) == [k |-> "str", v |-> s]

Bool(b) == [k |-> "bool", v |-> IF b THEN "True" ELSE "False"]

Member(enum, value) == [k |-> enum, v |-> value]

isinstance_str(val) == val.k = "str"

NodeTypeValues == {"text", "file", "link", "group"}

SideValues == {"top", "right", "bottom", "left"}

EndValues == {"none", "arrow"}

GroupNodeBackgroundStyleValues == {"cover", "ratio", "repeat"}

ColorPresetValues == 1..6

(***************************************************************************)
(* Characters of the strings the model passes to Color().                  *)
(***************************************************************************)
Chars(s) ==
    CASE s = "1" -> <<"1">>
      [] s = "7" -> <<"7">>
      [] s = "#1a2B3c" -> <<"#", "1", "a", "2", "B", "3", "c">>
      [] s = "#1a2b3" -> <<"#", "1", "a", "2", "b", "3">>
      [] OTHER -> <<"r", "e", "d">>

Digits == {"0", "1", "2", "3", "4", "5", "6", "7", "8", "9"}

DigitValue(c) ==
    CASE c = "0" -> 0 [] c = "1" -> 1 [] c = "2" -> 2 [] c = "3" -> 3
      [] c = "4" -> 4 [] c = "5" -> 5 [] c = "6" -> 6 [] c = "7" -> 7
      [] c = "8" -> 8 [] OTHER -> 9

RECURSIVE int(_)
int(cs) == IF cs = <<>> THEN 0 ELSE 10 * int(SubSeq(cs, 1, Len(cs) - 1)) + DigitValue(cs[Len(cs)])

lower(c) ==
    CASE c = "A" -> "a" [] c = "B" -> "b" [] c = "C" -> "c"
      [] c = "D" -> "d" [] c = "E" -> "e" [] c = "F" -> "f"
      [] OTHER -> c

validate_hex_code(hexcode) ==
    /\ Len(hexcode) = 6
    /\ \A i \in DOMAIN hexcode :
          hexcode[i] \in Digits \/ lower(hexcode[i]) \in {"a", "b", "c", "d", "e", "f"}

\* Color.__init__: "none" or the exception it raises.
ColorRaises(color) ==
    LET cs == Chars(color) IN
    IF cs[1] = "#"
    THEN IF validate_hex_code(Tail(cs)) THEN "none" ELSE "InvalidColorValueError"
    ELSE IF \A i \in DOMAIN cs : cs[i] \in Digits
         THEN IF int(cs) \in ColorPresetValues
              THEN "none" ELSE "InvalidColorValueError"
         ELSE "InvalidColorValueError"

Color(color) == [k |-> "Color", v |-> color]

(***************************************************************************)
(* Outcomes of a constructor or a function: a value or an exception.       *)
(***************************************************************************)
Returns(value) == [raised |-> "none", value |-> value]

Raises(exception) == [raised |-> exception, value |-> None]

\* A keyword argument of a dataclass __init__, or the field's default.
Field(kw, name, default) == IF name \in DOMAIN kw THEN kw[name] ELSE default

\* default_factory of the id fields: uuid.uuid4().hex[:16], a fresh token.
uuid4_hex == "uuid4hex"

DefaultX == 0

DefaultY == 0

DefaultWidth == 400

DefaultHeight == 100

(***************************************************************************)
(* validate.py: field-level validation of a constructed node or edge.      *)
(* "none" when the node or edge is accepted (the validator returns True),  *)
(* else the exception it raises.                                           *)
(***************************************************************************)
validate_node(node) ==
    IF ~(node.type.k = "NodeType" /\ node.type.v \in NodeTypeValues)
    THEN "InvalidNodeTypeError"
    ELSE IF node.color.k \notin {"None", "Color"}
    THEN "InvalidColorValueError"
    ELSE IF node.cls = "GroupNode"
            /\ ~(node.backgroundStyle.k = "None"
                 \/ (node.backgroundStyle.k = "GroupNodeBackgroundStyle"
                     /\ node.backgroundStyle.v \in GroupNodeBackgroundStyleValues))
    THEN "InvalidNodeTypeError"
    ELSE "none"

EdgeEnumOk(val, enum, values) ==
    val.k = "None" \/ (val.k = enum /\ val.v \in values)

validate_edge(edge) ==
    IF /\ EdgeEnumOk(edge.fromSide, "EdgesFromSideValue", SideValues)
       /\ EdgeEnumOk(edge.toSide, "EdgesToSideValue", SideValues)
       /\ EdgeEnumOk(edge.fromEnd, "EdgesFromEndValue", EndValues)
       /\ EdgeEnumOk(edge.toEnd, "EdgesToEndValue", EndValues)
    THEN IF edge.color.k \in {"None", "Color"} THEN "none" ELSE "InvalidColorValueError"
    ELSE "InvalidEdgeAttributeError"

(***************************************************************************)
(* models.py: the dataclasses.                                             *)
(***************************************************************************)
\* Enum(value): the member with that value, or ValueError.
EnumCall(enum, values, val) ==
    IF val.v \in values THEN Returns(Member(enum, val.v)) ELSE Raises("ValueError")

\* "if isinstance(self.f, str): self.f = Enum(self.f)" for one field.
CoerceEnum(val, enum, values) ==
    IF isinstance_str(val) THEN EnumCall(enum, values, val) ELSE Returns(val)

\* "if isinstance(self.color, str): self.color = Color(self.color)".
CoerceColor(val) ==
    IF isinstance_str(val)
    THEN IF ColorRaises(val.v) = "none" THEN Returns(Color(val.v)) ELSE Raises(ColorRaises(val.v))
    ELSE Returns(val)

\* The first exception among the outcomes, in order, or "none".
FirstRaised(outcomes) ==
    IF \A i \in DOMAIN outcomes : outcomes[i].raised = "none"
    THEN "none"
    ELSE outcomes[CHOOSE i \in DOMAIN outcomes :
                    /\ outcomes[i].raised # "none"
                    /\ \A j \in 1..(i - 1) : outcomes[j].raised = "none"].raised

\* Edge.__init__ and Edge.__post_init__.
Edge(kw) ==
    LET fromSide == CoerceEnum(Field(kw, "fromSide", None), "EdgesFromSideValue", SideValues)
        fromEnd == CoerceEnum(Field(kw, "fromEnd", None), "EdgesFromEndValue", EndValues)
        toSide == CoerceEnum(Field(kw, "toSide", None), "EdgesToSideValue", SideValues)
        toEnd == CoerceEnum(Field(kw, "toEnd", None), "EdgesToEndValue", EndValues)
        color == CoerceColor(Field(kw, "color", None))
        coerced == FirstRaised(<<fromSide, fromEnd, toSide, toEnd, color>>)
        self == [cls |-> "Edge",
                 fromNode |-> kw.fromNode,
                 toNode |-> kw.toNode,
                 fromSide |-> fromSide.value,
                 fromEnd |-> fromEnd.value,
                 toSide |-> toSide.value,
                 toEnd |-> toEnd.value,
                 color |-> color.value,
                 label |-> Field(kw, "label", None),
                 id |-> Field(kw, "id", uuid4_hex)]
    IN  IF ~({"fromNode", "toNode"} \subseteq DOMAIN kw) THEN Raises("TypeError")
        ELSE IF coerced # "none" THEN Raises(coerced)
        ELSE IF validate_edge(self) # "none" THEN Raises(validate_edge(self))
        ELSE Returns(self)

\* Edge.to_dict
Edge_to_dict(self) ==
    [id |-> self.id,
     fromNode |-> self.fromNode,
     fromSide |-> self.fromSide,
     fromEnd |-> self.fromEnd,
     toNode |-> self.toNode,
     toSide |-> self.toSide,
     toEnd |-> self.toEnd,
     color |-> self.color,
     label |-> self.label]

\* The fields GenericNode declares, from the keyword arguments or the defaults.
GenericNodeFields(kw, default_type) ==
    [type |-> Field(kw, "type", default_type),
     x |-> Field(kw, "x", DefaultX),
     y |-> Field(kw, "y", DefaultY),
     width |-> Field(kw, "width", DefaultWidth),
     height |-> Field(kw, "height", DefaultHeight),
     color |-> Field(kw, "color", None),
     id |-> Field(kw, "id", uuid4_hex)]

\* record @@ record
Merge(r1, r2) ==
    [f \in DOMAIN r1 \cup DOMAIN r2 |-> IF f \in DOMAIN r2 THEN r2[f] ELSE r1[f]]

\* GenericNode.x1
x1(self) == self.x + self.width

\* GenericNode.y1
y1(self) == self.y + self.height

\* "if isinstance(self.type, str): self.type = NodeType(<the variant's tag>)"
CoerceType(val, tag) == IF isinstance_str(val) THEN Member("NodeType", tag) ELSE val

GenericNode_to_dict_no_color(self, include_computed) ==
    [type |-> self.type, id |-> self.id, x |-> self.x, y |-> self.y,
     width |-> self.width, height |-> self.height]

\* GenericNode.to_dict
GenericNode_to_dict(self, include_computed) ==
    IF ~include_computed
    THEN [type |-> self.type, id |-> self.id, x |-> self.x, y |-> self.y,
          width |-> self.width, height |-> self.height, color |-> self.color]
    ELSE [type |-> self.type, id |-> self.id, x |-> self.x, y |-> self.y,
          x1 |-> x1(self), y1 |-> y1(self),
          width |-> self.width, height |-> self.height, color |-> self.color]

\* TextNode.__init__ and TextNode.__post_init__
TextNode(kw) ==
    LET color == CoerceColor(Field(kw, "color", None))
        base == GenericNodeFields(kw, Member("NodeType", "text"))
        self == Merge([base EXCEPT !.color = color.value, !.type = CoerceType(base.type, "text")],
                      [cls |-> "TextNode", text |-> Field(kw, "text", "")])
    IN  IF color.raised # "none" THEN Raises(color.raised)
        ELSE IF validate_node(self) # "none" THEN Raises(validate_node(self))
        ELSE Returns(self)

\* TextNode.to_dict
TextNode_to_dict(self) ==
    Merge(GenericNode_to_dict(self, FALSE), [text |-> self.text])

\* FileNode.__init__ and FileNode.__post_init__
FileNode(kw) ==
    LET color == CoerceColor(Field(kw, "color", None))
        base == GenericNodeFields(kw, Member("NodeType", "file"))
        self == Merge([base EXCEPT !.color = color.value, !.type = CoerceType(base.type, "file")],
                      [cls |-> "FileNode", file |-> Field(kw, "file", ""),
                       subpath |-> Field(kw, "subpath", None)])
    IN  IF color.raised # "none" THEN Raises(color.raised)
        ELSE IF validate_node(self) # "none" THEN Raises(validate_node(self))
        ELSE Returns(self)

\* FileNode.to_dict
FileNode_to_dict(self) ==
    Merge(GenericNode_to_dict(self, FALSE), [file |-> self.file, subpath |-> self.subpath])

\* LinkNode.__init__ and LinkNode.__post_init__
LinkNode(kw) ==
    LET color == CoerceColor(Field(kw, "color", None))
        base == GenericNodeFields(kw, Member("NodeType", "link"))
        self == Merge([base EXCEPT !.color = color.value, !.type = CoerceType(base.type, "link")],
                      [cls |-> "LinkNode", url |-> Field(kw, "url", "")])
    IN  IF color.raised # "none" THEN Raises(color.raised)
        ELSE IF validate_node(self) # "none" THEN Raises(validate_node(self))
        ELSE Returns(self)

\* LinkNode.to_dict
LinkNode_to_dict(self) ==
    Merge(GenericNode_to_dict(self, FALSE), [url |-> self.url])

\* GroupNode.__init__ and GroupNode.__post_init__
GroupNode(kw) ==
    LET color == CoerceColor(Field(kw, "color", None))
        style == CoerceEnum(Field(kw, "backgroundStyle", None),
                            "GroupNodeBackgroundStyle", GroupNodeBackgroundStyleValues)
        base == GenericNodeFields(kw, Member("NodeType", "group"))
        self == Merge([base EXCEPT !.color = color.value, !.type = CoerceType(base.type, "group")],
                      [cls |-> "GroupNode", label |-> Field(kw, "label", None),
                       background |-> Field(kw, "background", None),
                       backgroundStyle |-> style.value])
    IN  IF color.raised # "none" THEN Raises(color.raised)
        ELSE IF style.raised # "none" THEN Raises(style.raised)
        ELSE IF validate_node(self) # "none" THEN Raises(validate_node(self))
        ELSE Returns(self)

\* GroupNode.to_dict
GroupNode_to_dict(self) ==
    Merge(GenericNode_to_dict(self, FALSE),
          [label |-> self.label, background |-> self.background,
           backgroundStyle |-> self.backgroundStyle])

\* node.to_dict(), dispatched on the node's class
to_dict(node) ==
    CASE node.cls = "TextNode" -> TextNode_to_dict(node)
      [] node.cls = "FileNode" -> FileNode_to_dict(node)
      [] node.cls = "LinkNode" -> LinkNode_to_dict(node)
      [] OTHER -> GroupNode_to_dict(node)

(***************************************************************************)
(* jsoncanvas.py: the Canvas.  An operation takes the canvas               *)
(* self = [nodes, edges] and yields the canvas it leaves, the exception it *)
(* raises ("none" if it returns) and the value it returns.                 *)
(***************************************************************************)
Outcome(ns, es, exception, value) ==
    [nodes |-> ns, edges |-> es, raised |-> exception, ret |-> value]

\* [n.id for n in self.nodes], as a set
NodeIdsOf(ns) == {ns[i].id : i \in DOMAIN ns}

\* [e.id for e in self.edges], as a set
EdgeIdsOf(es) == {es[i].id : i \in DOMAIN es}

\* Canvas.get_node
Canvas_get_node(self, node_id) ==
    IF \E i \in DOMAIN self.nodes : self.nodes[i].id = node_id
    THEN Outcome(self.nodes, self.edges, "none",
                 self.nodes[CHOOSE i \in DOMAIN self.nodes :
                               /\ self.nodes[i].id = node_id
                               /\ \A j \in 1..(i - 1) : self.nodes[j].id # node_id])
    ELSE Outcome(self.nodes, self.edges, "NodeNotFoundError", None)

\* Canvas.get_edge
Canvas_get_edge(self, edge_id) ==
    IF \E i \in DOMAIN self.edges : self.edges[i].id = edge_id
    THEN Outcome(self.nodes, self.edges, "none",
                 self.edges[CHOOSE i \in DOMAIN self.edges :
                               /\ self.edges[i].id = edge_id
                               /\ \A j \in 1..(i - 1) : self.edges[j].id # edge_id])
    ELSE Outcome(self.nodes, self.edges, "EdgeNotFoundError", None)

Canvas_add_node_unchecked(self, node) ==
    IF validate_node(node) # "none"
    THEN Outcome(self.nodes, self.edges, validate_node(node), None)
    ELSE Outcome(Append(self.nodes, node), self.edges, "none", None)

\* Canvas.add_node
Canvas_add_node(self, node) ==
    IF validate_node(node) # "none"
    THEN Outcome(self.nodes, self.edges, validate_node(node), None)
    ELSE IF node.id \in NodeIdsOf(self.nodes)
    THEN Outcome(self.nodes, self.edges, "NodeIDConflictError", None)
    ELSE Outcome(Append(self.nodes, node), self.edges, "none", None)

Canvas_add_edge_unchecked(self, edge) ==
    IF validate_edge(edge) # "none"
    THEN Outcome(self.nodes, self.edges, validate_edge(edge), None)
    ELSE Outcome(self.nodes, Append(self.edges, edge), "none", None)

\* Canvas.add_edge
Canvas_add_edge(self, edge) ==
    IF validate_edge(edge) # "none"
    THEN Outcome(self.nodes, self.edges, validate_edge(edge), None)
    ELSE IF edge.id \in EdgeIdsOf(self.edges)
    THEN Outcome(self.nodes, self.edges, "EdgeIDConflictError", None)
    ELSE Outcome(self.nodes, Append(self.edges, edge), "none", None)

Canvas_remove_node_from_only(self, node_id) ==
    LET ns == SelectSeq(self.nodes, LAMBDA node : node.id # node_id)
        node_exists == Len(ns) # Len(self.nodes)
        es == SelectSeq(self.edges, LAMBDA edge : edge.fromNode # node_id)
    IN  IF ~node_exists
        THEN Outcome(ns, es, "NodeNotFoundError", None)
        ELSE Outcome(ns, es, "none", Bool(node_exists))

Canvas_remove_node_no_cascade(self, node_id) ==
    LET ns == SelectSeq(self.nodes, LAMBDA node : node.id # node_id)
        node_exists == Len(ns) # Len(self.nodes)
    IN  IF ~node_exists
        THEN Outcome(ns, self.edges, "NodeNotFoundError", None)
        ELSE Outcome(ns, self.edges, "none", Bool(node_exists))

\* Canvas.remove_node: both lists are rebuilt before the existence check raises
Canvas_remove_node(self, node_id) ==
    LET ns == SelectSeq(self.nodes, LAMBDA node : node.id # node_id)
        node_exists == Len(ns) # Len(self.nodes)
        es == SelectSeq(self.edges,
                        LAMBDA edge : edge.fromNode # node_id /\ edge.toNode # node_id)
    IN  IF ~node_exists
        THEN Outcome(ns, es, "NodeNotFoundError", None)
        ELSE Outcome(ns, es, "none", Bool(node_exists))

\* Canvas.remove_edge
Canvas_remove_edge(self, edge_id) ==
    LET es == SelectSeq(self.edges, LAMBDA edge : edge.id # edge_id)
        edge_exists == Len(es) # Len(self.edges)
    IN  IF ~edge_exists
        THEN Outcome(self.nodes, es, "EdgeNotFoundError", None)
        ELSE Outcome(self.nodes, es, "none", None)

(***************************************************************************)
(* The canvas under its mutating operations, from the empty canvas.        *)
(***************************************************************************)
Self == [nodes |-> nodes, edges |-> edges]

\* The nodes and edges a caller constructs and hands to add_node / add_edge.
OpNodes ==
    {TextNode([id |-> i]).value : i \in NodeIds}
        \cup {GroupNode([id |-> i]).value : i \in NodeIds}

OpEdges ==
    {Edge([id |-> i, fromNode |-> f, toNode |-> t]).value :
        i \in EdgeIds, f \in NodeIds, t \in NodeIds}

Idle == [name |-> "none", arg |-> None]

NoResolver ==
    /\ a_group_node = None
    /\ remaining_canvas_nodes = <<>>
    /\ stack = <<>>

Apply(name, arg, out) ==
    /\ call' = [name |-> name, arg |-> arg]
    /\ nodes' = out.nodes
    /\ edges' = out.edges
    /\ raised' = out.raised
    /\ ret' = out.ret
    /\ UNCHANGED <<text, a_group_node, remaining_canvas_nodes, stack>>

InitCanvas ==
    /\ nodes = <<>>
    /\ edges = <<>>
    /\ call = Idle
    /\ raised = "none"
    /\ ret = None
    /\ text = None
    /\ NoResolver

add_node(node) == Apply("add_node", node, Canvas_add_node(Self, node))

add_edge(edge) == Apply("add_edge", edge, Canvas_add_edge(Self, edge))

remove_node(node_id) == Apply("remove_node", Str(node_id), Canvas_remove_node(Self, node_id))

remove_edge(edge_id) == Apply("remove_edge", Str(edge_id), Canvas_remove_edge(Self, edge_id))

NextCanvas ==
    \/ \E node \in OpNodes : add_node(node)
    \/ \E edge \in OpEdges : add_edge(edge)
    \/ \E node_id \in NodeIds : remove_node(node_id)
    \/ \E edge_id \in EdgeIds : remove_edge(edge_id)

Spec == InitCanvas /\ [][NextCanvas]_vars

(***************************************************************************)
(* Properties of the canvas operations.                                    *)
(***************************************************************************)
\* new holds exactly the elements of old at the positions in keep, in old's order
KeptInOrder(old, new, keep) ==
    /\ Len(new) = Cardinality(keep)
    /\ \A j \in keep : new[Cardinality({k \in keep : k <= j})] = old[j]

Touches(edge, node_id) == edge.fromNode = node_id \/ edge.toNode = node_id

\* C1: a successful remove_node(id), for an id some node has, leaves no node with
\* identifier id and no edge whose fromNode or toNode is id, and keeps every other
\* node and every other edge in its original relative order.
C1_RemoveNodeCascades ==
    [][(call'.name = "remove_node" /\ call'.arg.v \in NodeIdsOf(nodes) /\ raised' = "none")
        => LET id == call'.arg.v IN
           /\ \A i \in DOMAIN nodes' : nodes'[i].id # id
           /\ \A i \in DOMAIN edges' : ~Touches(edges'[i], id)
           /\ KeptInOrder(nodes, nodes', {i \in DOMAIN nodes : nodes[i].id # id})
           /\ KeptInOrder(edges, edges', {i \in DOMAIN edges : ~Touches(edges[i], id)})]_vars

\* A successful remove_node that dropped a node and an edge and kept a node and an edge.
C1_Witness ==
    /\ call.name = "remove_node"
    /\ raised = "none"
    /\ Len(nodes) = MaxNodeIds - 1
    /\ Len(edges) = 1
    /\ ret = Bool(TRUE)

\* C2: remove_node(id) for an id no node has fails with NodeNotFound and leaves the
\* node sequence and the edge sequence as they were, also when an edge names id.
C2_RemoveMissingNodeNoChange ==
    [][(call'.name = "remove_node" /\ call'.arg.v \notin NodeIdsOf(nodes))
        => (raised' = "NodeNotFoundError" /\ nodes' = nodes /\ edges' = edges)]_vars

\* C3: add_node(n) on a canvas that holds a node with identifier n.id fails with
\* NodeIDConflict, leaves nodes and edges unchanged, and get_node(n.id) still returns
\* the node inserted first.
C3_AddNodeConflict ==
    [][(call'.name = "add_node" /\ call'.arg.id \in NodeIdsOf(nodes))
        => /\ raised' = "NodeIDConflictError"
           /\ nodes' = nodes
           /\ edges' = edges
           /\ Canvas_get_node([nodes |-> nodes', edges |-> edges'], call'.arg.id).raised = "none"
           /\ Canvas_get_node([nodes |-> nodes', edges |-> edges'], call'.arg.id).ret
                = Canvas_get_node(Self, call'.arg.id).ret]_vars

\* A rejected add_node of a node that differs from the stored node of the same id.
C3_Witness ==
    /\ call.name = "add_node"
    /\ raised = "NodeIDConflictError"
    /\ Canvas_get_node(Self, call.arg.id).raised = "none"
    /\ Canvas_get_node(Self, call.arg.id).ret # call.arg
    /\ Len(edges) > 0

NoDuplicates(seq) ==
    \A i, j \in DOMAIN seq : seq[i].id = seq[j].id => i = j

\* C4: from the empty canvas, after any sequence of add_node, add_edge, remove_node
\* and remove_edge calls, no two nodes share an identifier and no two edges share an
\* identifier.
C4_UniqueIdentifiers == NoDuplicates(nodes) /\ NoDuplicates(edges)

\* A full canvas on which an insertion has just been rejected for a duplicate identifier.
C4_Witness ==
    /\ raised \in {"NodeIDConflictError", "EdgeIDConflictError"}
    /\ Len(nodes) = MaxNodeIds
    /\ Len(edges) = Cardinality(EdgeIds)

NoOrphanEdges(ns, es) ==
    \A i \in DOMAIN es : es[i].fromNode \in NodeIdsOf(ns) /\ es[i].toNode \in NodeIdsOf(ns)

\* C5 (as claimed): after any sequence of add_node, add_edge, remove_node and
\* remove_edge calls every edge's fromNode and toNode name a node of the canvas.
C5_NoOrphanAlways == NoOrphanEdges(nodes, edges)

\* The step appends an edge one of whose endpoints is not a node of the canvas.
AddsOrphanEdge ==
    /\ call'.name = "add_edge"
    /\ raised' = "none"
    /\ ~(call'.arg.fromNode \in NodeIdsOf(nodes) /\ call'.arg.toNode \in NodeIdsOf(nodes))

\* C5 (amended): add_node, remove_node and remove_edge keep an orphan-free canvas
\* orphan-free, and so does add_edge of an edge whose endpoints both exist; add_edge
\* does not check the endpoints, so only it can introduce an orphan edge.
C5_OnlyAddEdgeOrphans ==
    [][(NoOrphanEdges(nodes, edges) /\ ~AddsOrphanEdge) => NoOrphanEdges(nodes', edges')]_vars

\* An orphan-free canvas with an edge left after a successful remove_node.
C5_Witness ==
    /\ call.name = "remove_node"
    /\ raised = "none"
    /\ Len(edges) > 0
    /\ NoOrphanEdges(nodes, edges)

(***************************************************************************)
(* Canvas.validate, on a canvas built with Canvas(nodes=..., edges=...).   *)
(***************************************************************************)
NodeClasses == {"TextNode", "FileNode", "LinkNode", "GroupNode"}

\* The exception raised inside the try block of validate, or "none".
ValidateBody(self) ==
    LET badNode(node) == ~(node.cls \in NodeClasses /\ validate_node(node) = "none")
        badEdge(edge) == validate_edge(edge) # "none" \/ ~NoOrphanEdges(self.nodes, <<edge>>)
    IN  IF \E i \in DOMAIN self.nodes : badNode(self.nodes[i])
        THEN "InvalidNodeTypeError"
        ELSE IF \E i \in DOMAIN self.edges : self.edges[i].cls # "Edge"
        THEN "InvalidEdgeAttributeError"
        ELSE IF \E i \in DOMAIN self.edges : badEdge(self.edges[i])
        THEN LET first == self.edges[CHOOSE i \in DOMAIN self.edges :
                                        /\ badEdge(self.edges[i])
                                        /\ \A j \in 1..(i - 1) : ~badEdge(self.edges[j])]
             IN  IF validate_edge(first) # "none" THEN validate_edge(first)
                 ELSE "OrphanEdgeError"
        ELSE "none"

\* Canvas.validate
Canvas_validate(self) ==
    LET e == ValidateBody(self) IN
    IF e = "none" THEN Outcome(self.nodes, self.edges, "none", Bool(TRUE))
    ELSE IF e \in {"InvalidNodeTypeError", "InvalidEdgeAttributeError", "OrphanEdgeError"}
    THEN Outcome(self.nodes, self.edges, "CanvasValidationError", None)
    ELSE Outcome(self.nodes, self.edges, e, None)

MaxListLen == 2

SeqsUpTo(S, n) == UNION {[1..m -> S] : m \in 0..n}

InitValidate ==
    /\ nodes \in SeqsUpTo(OpNodes, MaxListLen)
    /\ edges \in SeqsUpTo(OpEdges, MaxListLen)
    /\ call = Idle
    /\ raised = "none"
    /\ ret = None
    /\ text = None
    /\ NoResolver

validate == Apply("validate", None, Canvas_validate(Self))

get_node(node_id) == Apply("get_node", Str(node_id), Canvas_get_node(Self, node_id))

NextValidate ==
    \/ validate
    \/ \E node_id \in NodeIds : get_node(node_id)

SpecValidate == InitValidate /\ [][NextValidate]_vars

\* C6: validate() returns true only when node identifiers are unique, edge identifiers
\* are unique and every edge's endpoints name an existing node; on a canvas that
\* breaks one of these it fails with CanvasValidationError.
C6_ValidateChecksAll ==
    call.name = "validate" =>
        IF NoDuplicates(nodes) /\ NoDuplicates(edges) /\ NoOrphanEdges(nodes, edges)
        THEN raised = "none" => ret = Bool(TRUE)
        ELSE raised = "CanvasValidationError"

(***************************************************************************)
(* The codec: Canvas.to_json and Canvas.from_json.                         *)
(*                                                                         *)
(* A JSON text is [wellformed, doc]: json.loads raises JSONDecodeError on  *)
(* a text that is not well-formed and otherwise yields the document, in    *)
(* which an object is a record, an array a sequence, a string Str(s) (or a *)
(* TLA+ string in the fields that only ever hold strings) and null None.   *)
(***************************************************************************)
JsonText(doc) == [wellformed |-> TRUE, doc |-> doc]

Malformed == [wellformed |-> FALSE, doc |-> None]

\* json.loads
loads(json_str) ==
    IF json_str.wellformed THEN Returns(json_str.doc) ELSE Raises("JSONDecodeError")

\* The fields of a to_dict record that hold a tagged value.
TaggedFields ==
    {"type", "color", "subpath", "label", "background", "backgroundStyle",
     "fromSide", "fromEnd", "toSide", "toEnd"}

\* CustomEncoder.default: an Enum member is written as its value and a Color as its
\* color string; str and None are JSON-native.
CustomEncoder_default(val) ==
    IF val.k \in {"str", "None"} THEN val ELSE Str(val.v)

\* json.dumps(..., cls=CustomEncoder) of one to_dict record
EncodeRecord(d) ==
    [f \in DOMAIN d |-> IF f \in TaggedFields THEN CustomEncoder_default(d[f]) ELSE d[f]]

\* Canvas.to_json
Canvas_to_json(self) ==
    JsonText([nodes |-> [i \in DOMAIN self.nodes |-> EncodeRecord(to_dict(self.nodes[i]))],
              edges |-> [i \in DOMAIN self.edges |-> EncodeRecord(Edge_to_dict(self.edges[i]))]])

\* The body of the loop over canvas_dict["nodes"], for one record
NodeFromRecord(node) ==
    IF "type" \notin DOMAIN node THEN Raises("KeyError")
    ELSE IF node.type = Str("text") THEN TextNode(node)
    ELSE IF node.type = Str("file") THEN FileNode(node)
    ELSE IF node.type = Str("link") THEN LinkNode(node)
    ELSE IF node.type = Str("group") THEN GroupNode(node)
    ELSE IF "id" \notin DOMAIN node THEN Raises("KeyError")
    ELSE Raises("InvalidNodeTypeError")

\* The exception that propagates out of the try block of from_json, or "none"
FromJsonBody(json_str) ==
    LET parsed == loads(json_str)
        canvas_dict == parsed.value
    IN  IF parsed.raised # "none" THEN parsed.raised
        ELSE IF "nodes" \notin DOMAIN canvas_dict THEN "KeyError"
        ELSE LET ns == [i \in DOMAIN canvas_dict.nodes |-> NodeFromRecord(canvas_dict.nodes[i])]
             IN  IF FirstRaised(ns) # "none" THEN FirstRaised(ns)
                 ELSE IF "edges" \notin DOMAIN canvas_dict THEN "KeyError"
                 ELSE FirstRaised([i \in DOMAIN canvas_dict.edges |-> Edge(canvas_dict.edges[i])])

\* Canvas.from_json
Canvas_from_json(json_str) ==
    LET e == FromJsonBody(json_str)
        canvas_dict == loads(json_str).value
    IN  IF e = "JSONDecodeError" THEN Raises("InvalidJsonError")
        ELSE IF e # "none" THEN Raises(e)
        ELSE Returns([cls |-> "Canvas",
                      nodes |-> [i \in DOMAIN canvas_dict.nodes |->
                                    NodeFromRecord(canvas_dict.nodes[i]).value],
                      edges |-> [i \in DOMAIN canvas_dict.edges |->
                                    Edge(canvas_dict.edges[i]).value]])

(***************************************************************************)
(* Round trip: a canvas of constructed nodes and edges is written with     *)
(* to_json and the text read back with from_json.                          *)
(***************************************************************************)
MaxCodecNodes == 2

MaxCodecEdges == 1

\* Nodes of the four variants, as a caller constructs them.
CodecNodes ==
    {TextNode([id |-> "A", text |-> "hi"]).value,
     TextNode([id |-> "B", color |-> Str("#1a2B3c"),
               x |-> -5, y |-> 7, width |-> 10, height |-> 20]).value,
     TextNode([text |-> "hi"]).value,
     FileNode([id |-> "A", file |-> "f.md"]).value,
     FileNode([id |-> "B", file |-> "f.md", subpath |-> Str("#h"), color |-> Str("1")]).value,
     LinkNode([id |-> "A", url |-> "http://x"]).value,
     LinkNode([id |-> "B", color |-> Str("1"), width |-> 0]).value,
     GroupNode([id |-> "A"]).value,
     GroupNode([id |-> "B", label |-> Str("G"), background |-> Str("bg.png"),
                backgroundStyle |-> Str("cover")]).value,
     GroupNode([id |-> "A", color |-> Str("#1a2B3c"),
                backgroundStyle |-> Member("GroupNodeBackgroundStyle", "ratio")]).value}

CodecEdges ==
    {Edge([id |-> "e1", fromNode |-> "A", toNode |-> "B"]).value,
     Edge([fromNode |-> "A", toNode |-> "A", color |-> Str("1")]).value,
     Edge([id |-> "e2", fromNode |-> "B", toNode |-> "A", fromSide |-> Str("top"),
           fromEnd |-> Str("none"), toSide |-> Str("left"), toEnd |-> Str("arrow"),
           color |-> Str("#1a2B3c"), label |-> Str("L")]).value,
     Edge([id |-> "e1", fromNode |-> "B", toNode |-> "C",
           fromSide |-> Member("EdgesFromSideValue", "bottom"),
           toEnd |-> Member("EdgesToEndValue", "none")]).value}

InitCodec ==
    /\ nodes \in SeqsUpTo(CodecNodes, MaxCodecNodes)
    /\ edges \in SeqsUpTo(CodecEdges, MaxCodecEdges)
    /\ call = Idle
    /\ raised = "none"
    /\ ret = None
    /\ text = None
    /\ NoResolver

\* text = canvas.to_json()
to_json ==
    /\ call' = [name |-> "to_json", arg |-> None]
    /\ text' = Canvas_to_json(Self)
    /\ raised' = "none"
    /\ ret' = None
    /\ UNCHANGED <<nodes, edges, a_group_node, remaining_canvas_nodes, stack>>

\* ret = Canvas.from_json(text)
from_json ==
    /\ text # None
    /\ call' = [name |-> "from_json", arg |-> None]
    /\ raised' = Canvas_from_json(text).raised
    /\ ret' = Canvas_from_json(text).value
    /\ UNCHANGED <<nodes, edges, text, a_group_node, remaining_canvas_nodes, stack>>

NextCodec == to_json \/ from_json

SpecCodec == InitCodec /\ [][NextCodec]_vars

\* C8: from_json(to_json(C)) yields a canvas whose nodes and edges have the same
\* identifiers, the same variant and the same field values as those of C, in the
\* same order.
C8_RoundTrip ==
    (call.name = "from_json" /\ text = Canvas_to_json(Self))
        => /\ raised = "none"
           /\ ret.cls = "Canvas"
           /\ ret.nodes = nodes
           /\ ret.edges = edges

\* A canvas read back that holds a coloured node, a group with a background style
\* and a styled edge.
C8_Witness ==
    /\ call.name = "from_json"
    /\ raised = "none"
    /\ Len(nodes) = MaxCodecNodes
    /\ Len(edges) = MaxCodecEdges
    /\ \E i \in DOMAIN nodes : nodes[i].color.k = "Color"
    /\ \E i \in DOMAIN nodes :
          nodes[i].cls = "GroupNode" /\ nodes[i].backgroundStyle.k = "GroupNodeBackgroundStyle"
    /\ \E i \in DOMAIN edges : edges[i].fromSide.k = "EdgesFromSideValue"

(***************************************************************************)
(* from_json on arbitrary texts: malformed text, documents whose node      *)
(* records lack a type tag or an identifier or carry an unknown tag.       *)
(***************************************************************************)
MaxJsonNodes == 2

JsonTypeTags == {Str(t) : t \in NodeTypeValues} \cup {Str("bogus"), None}

JsonNodeRecords ==
    {[type |-> t, id |-> "A"] : t \in JsonTypeTags}
        \cup {[type |-> t] : t \in JsonTypeTags}
        \cup {[id |-> "A"], [x |-> 1]}

JsonEdgeLists ==
    {<<>>, <<[id |-> "e1", fromNode |-> "A", toNode |-> "B"]>>, <<[id |-> "e1", fromNode |-> "A"]>>}

JsonTexts ==
    {JsonText([nodes |-> ns, edges |-> es]) :
        ns \in SeqsUpTo(JsonNodeRecords, MaxJsonNodes), es \in JsonEdgeLists}
        \cup {Malformed, JsonText([edges |-> <<>>]), JsonText([nodes |-> <<>>])}

InitFromJson ==
    /\ nodes = <<>>
    /\ edges = <<>>
    /\ call = Idle
    /\ raised = "none"
    /\ ret = None
    /\ text \in JsonTexts
    /\ NoResolver

SpecFromJson == InitFromJson /\ [][from_json]_vars

\* Some node record of the document has an unknown type tag or none.
HasBadTypeTag(doc) ==
    /\ "nodes" \in DOMAIN doc
    /\ \E i \in DOMAIN doc.nodes :
          \/ "type" \notin DOMAIN doc.nodes[i]
          \/ doc.nodes[i].type \notin {Str(t) : t \in NodeTypeValues}

\* C7: from_json of well-formed JSON text in which some node record has an unknown
\* type tag or no type tag fails with InvalidNodeType and no other error; it fails
\* with InvalidJson exactly when the text cannot be parsed.
C7_FromJsonErrors ==
    call.name = "from_json" =>
        /\ (text.wellformed /\ HasBadTypeTag(text.doc)) => raised = "InvalidNodeTypeError"
        /\ raised = "InvalidJsonError" <=> ~text.wellformed

(***************************************************************************)
(* models.py: geometric containment.                                       *)
(***************************************************************************)
GroupNode_does_contain_strict(self, putative_child_node) ==
    IF self.id = putative_child_node.id THEN FALSE
    ELSE IF putative_child_node.x <= self.x THEN FALSE
    ELSE IF x1(putative_child_node) >= x1(self) THEN FALSE
    ELSE IF putative_child_node.y <= self.y THEN FALSE
    ELSE IF y1(putative_child_node) >= y1(self) THEN FALSE
    ELSE TRUE

GroupNode_does_contain_no_self_check(self, putative_child_node) ==
    IF putative_child_node.x < self.x THEN FALSE
    ELSE IF x1(putative_child_node) > x1(self) THEN FALSE
    ELSE IF putative_child_node.y < self.y THEN FALSE
    ELSE IF y1(putative_child_node) > y1(self) THEN FALSE
    ELSE TRUE

\* GroupNode.does_contain
GroupNode_does_contain(self, putative_child_node) ==
    IF self.id = putative_child_node.id THEN FALSE
    ELSE IF putative_child_node.x < self.x THEN FALSE
    ELSE IF x1(putative_child_node) > x1(self) THEN FALSE
    ELSE IF putative_child_node.y < self.y THEN FALSE
    ELSE IF y1(putative_child_node) > y1(self) THEN FALSE
    ELSE TRUE

\* GroupNode.find_children
GroupNode_find_children(self, putative_child_nodes) ==
    SelectSeq(putative_child_nodes, LAMBDA c : GroupNode_does_contain(self, c))

(***************************************************************************)
(* does_contain and find_children on a group and one candidate node, over  *)
(* a grid of positions and sizes.                                          *)
(***************************************************************************)
MaxCoord == 2

MaxSize == 2

GroupCoords == 0..1

Coords == -1..MaxCoord

Sizes == 0..MaxSize

ContainGroups ==
    {GroupNode([id |-> "G", x |-> gx, y |-> gy, width |-> w, height |-> h]).value :
        gx \in GroupCoords, gy \in GroupCoords, w \in Sizes, h \in Sizes}

ContainCandidates ==
    {TextNode([id |-> i, x |-> cx, y |-> cy, width |-> w, height |-> h]).value :
        i \in {"G", "c"}, cx \in Coords, cy \in Coords, w \in Sizes, h \in Sizes}

InitContain ==
    /\ nodes = <<>>
    /\ edges = <<>>
    /\ call = Idle
    /\ raised = "none"
    /\ ret = None
    /\ text = None
    /\ a_group_node \in ContainGroups
    /\ \E c \in ContainCandidates : remaining_canvas_nodes = <<c>>
    /\ stack = <<>>

\* ret = a_group_node.does_contain(remaining_canvas_nodes[1])
does_contain ==
    /\ call' = [name |-> "does_contain", arg |-> remaining_canvas_nodes[1]]
    /\ raised' = "none"
    /\ ret' = Bool(GroupNode_does_contain(a_group_node, remaining_canvas_nodes[1]))
    /\ UNCHANGED <<nodes, edges, text, a_group_node, remaining_canvas_nodes, stack>>

\* ret = a_group_node.find_children(remaining_canvas_nodes)
find_children ==
    /\ call' = [name |-> "find_children", arg |-> None]
    /\ raised' = "none"
    /\ ret' = [k |-> "list", v |-> GroupNode_find_children(a_group_node, remaining_canvas_nodes)]
    /\ UNCHANGED <<nodes, edges, text, a_group_node, remaining_canvas_nodes, stack>>

NextContain == does_contain \/ find_children

SpecContain == InitContain /\ [][NextContain]_vars

\* C9: G.does_contain(c) is true if and only if c.id differs from G.id and
\* c.x >= G.x, c.x + c.width <= G.x + G.width, c.y >= G.y and
\* c.y + c.height <= G.y + G.height (boundaries inclusive).
C9_DoesContainIff ==
    call.name = "does_contain" =>
        LET G == a_group_node
            c == call.arg
        IN  ret = Bool(TRUE) <=>
                /\ c.id # G.id
                /\ c.x >= G.x
                /\ c.x + c.width <= G.x + G.width
                /\ c.y >= G.y
                /\ c.y + c.height <= G.y + G.height

\* A distinct node with exactly G's bounds was found contained.
C9_Witness ==
    /\ call.name = "does_contain"
    /\ ret = Bool(TRUE)
    /\ call.arg.id # a_group_node.id
    /\ call.arg.x = a_group_node.x /\ call.arg.y = a_group_node.y
    /\ call.arg.width = a_group_node.width /\ call.arg.height = a_group_node.height
    /\ call.arg.width > 0 /\ call.arg.height > 0

(***************************************************************************)
(* jsoncanvas.py: Canvas.recurrsively_find_nested_groups.                  *)
(* A dict is [k |-> "dict", v |-> the sequence of its [key, value] items]. *)
(***************************************************************************)
Dict(items) == [k |-> "dict", v |-> items]

is_group(v) == v.type.v = "group"

RECURSIVE Canvas_recurrsively_find_nested_groups(_, _)
\* Canvas.recurrsively_find_nested_groups: the name found_group_children, read after
\* the recursive calls, is bound nowhere, so the read raises NameError.
Canvas_recurrsively_find_nested_groups(group, remaining) ==
    IF Len(remaining) = 0
    THEN Returns(Dict(<<>>))
    ELSE LET found_children_nodes == GroupNode_find_children(group, remaining)
             subgroups == SelectSeq(found_children_nodes, is_group)
             nested == [i \in DOMAIN subgroups |->
                          Canvas_recurrsively_find_nested_groups(subgroups[i], found_children_nodes)]
         IN  IF FirstRaised(nested) # "none"
             THEN Raises(FirstRaised(nested))
             ELSE Raises("NameError")

(***************************************************************************)
(* The resolver on a group and a set of candidate nodes whose boxes are    *)
(* drawn from a family of concentric squares and one square apart.         *)
(***************************************************************************)
NestDepth == 3

MaxRemaining == 3

\* The square of nesting level i: level 0 is the outermost.
NestBox(i) == [x |-> i, y |-> i, width |-> 2 * (NestDepth - i) + 1, height |-> 2 * (NestDepth - i) + 1]

ApartBox == [x |-> 2 * NestDepth + 2, y |-> 0, width |-> 1, height |-> 1]

NestBoxes == {NestBox(i) : i \in 0..NestDepth} \cup {ApartBox}

ResolverGroup(id, box) ==
    GroupNode([id |-> id, x |-> box.x, y |-> box.y, width |-> box.width, height |-> box.height]).value

ResolverLeaf(id, box) ==
    TextNode([id |-> id, x |-> box.x, y |-> box.y, width |-> box.width, height |-> box.height]).value

\* The candidate sets: at most one node per identifier, each a group or a text node at
\* any box, in identifier order, with or without the group itself in front.
InitResolver ==
    /\ nodes = <<>>
    /\ edges = <<>>
    /\ call = Idle
    /\ raised = "none"
    /\ ret = None
    /\ text = None
    /\ stack = <<>>
    /\ a_group_node \in {ResolverGroup("O", b) : b \in NestBoxes}
    /\ \E present \in SUBSET (1..MaxRemaining), self_in \in BOOLEAN :
          \E f \in [present -> NestBoxes \X {"group", "text"}] :
             LET order == SelectSeq([i \in 1..MaxRemaining |-> i], LAMBDA i : i \in present)
                 others == [j \in DOMAIN order |->
                              IF f[order[j]][2] = "group"
                              THEN ResolverGroup(IdNames[order[j]], f[order[j]][1])
                              ELSE ResolverLeaf(IdNames[order[j]], f[order[j]][1])]
             IN  remaining_canvas_nodes = (IF self_in THEN <<a_group_node>> ELSE <<>>) \o others

\* ret = Canvas.recurrsively_find_nested_groups(a_group_node, remaining_canvas_nodes)
recurrsively_find_nested_groups ==
    /\ call' = [name |-> "recurrsively_find_nested_groups", arg |-> None]
    /\ raised' = Canvas_recurrsively_find_nested_groups(a_group_node, remaining_canvas_nodes).raised
    /\ ret' = Canvas_recurrsively_find_nested_groups(a_group_node, remaining_canvas_nodes).value
    /\ UNCHANGED <<nodes, edges, text, a_group_node, remaining_canvas_nodes, stack>>

NextResolver == recurrsively_find_nested_groups \/ find_children

SpecResolver == InitResolver /\ [][NextResolver]_vars

\* The candidates are two groups and a leaf that form, with the group the resolver
\* is called on, a chain Outer, Middle, Inner, leaf, each box inside the previous one.
IsChain ==
    /\ Len(remaining_canvas_nodes) = 3
    /\ LET Outer == a_group_node
           Middle == remaining_canvas_nodes[1]
           Inner == remaining_canvas_nodes[2]
           leaf == remaining_canvas_nodes[3]
       IN  /\ is_group(Middle) /\ is_group(Inner) /\ ~is_group(leaf)
           /\ GroupNode_does_contain(Outer, Middle)
           /\ GroupNode_does_contain(Middle, Inner)
           /\ GroupNode_does_contain(Inner, leaf)

RECURSIVE HasChild(_, _, _)
\* In the mapping d, at any depth, the item of group g lists c: as an element of its
\* list of children or as a key of its nested mapping.
HasChild(d, g, c) ==
    /\ d.k = "dict"
    /\ \E i \in DOMAIN d.v :
          \/ /\ d.v[i].key.id = g.id
             /\ \/ d.v[i].value.k = "list" /\ \E j \in DOMAIN d.v[i].value.v : d.v[i].value.v[j].id = c.id
                \/ d.v[i].value.k = "dict" /\ \E j \in DOMAIN d.v[i].value.v : d.v[i].value.v[j].key.id = c.id
          \/ HasChild(d.v[i].value, g, c)

\* C10: on a chain Outer, Middle, Inner with one leaf inside Inner, the resolver
\* called on Outer returns a mapping in which Inner's children include the leaf and
\* Middle's children include Inner.
C10_ChainResolved ==
    (call.name = "recurrsively_find_nested_groups" /\ IsChain)
        => /\ raised = "none"
           /\ HasChild(ret, remaining_canvas_nodes[2], remaining_canvas_nodes[3])
           /\ HasChild(ret, remaining_canvas_nodes[1], remaining_canvas_nodes[2])

(***************************************************************************)
(* Canvas.recurrsively_find_nested_groups, one frame at a time.  stack     *)
(* holds the calls in progress, the innermost last.  A frame records the   *)
(* group and the candidates the call received, the position i in its       *)
(* found_children_nodes that the dict comprehension reaches next, and the  *)
(* items the comprehension has collected so far.                           *)
(***************************************************************************)
Frame(group, remaining) == [group |-> group, remaining |-> remaining, i |-> 1, out |-> <<>>]

Top == stack[Len(stack)]

\* found_children_nodes of a frame
FoundChildren(frame) == GroupNode_find_children(frame.group, frame.remaining)

\* The position, from i on, of the next group among the found children; 0 when the
\* comprehension is exhausted.
NextGroup(frame) ==
    LET found == FoundChildren(frame)
        rest == {j \in DOMAIN found : j >= frame.i /\ is_group(found[j])}
    IN  IF rest = {} THEN 0 ELSE CHOOSE j \in rest : \A m \in rest : j <= m

\* The interpreter's limit on the depth of calls, which ends a deeper recursion with
\* RecursionError; here a few frames more than the longest candidate list.
RecursionLimit == MaxRemaining + 3

\* The call Canvas.recurrsively_find_nested_groups(a_group_node, remaining_canvas_nodes)
\* is entered.
resolver_call ==
    /\ call = Idle
    /\ stack = <<>>
    /\ call' = [name |-> "recurrsively_find_nested_groups", arg |-> None]
    /\ stack' = <<Frame(a_group_node, remaining_canvas_nodes)>>
    /\ UNCHANGED <<nodes, edges, raised, ret, text, a_group_node, remaining_canvas_nodes>>

\* The innermost call received no candidates and returns the empty dict; its caller
\* stores it under the subgroup's key and goes on with the comprehension.
resolver_return_empty ==
    /\ stack # <<>>
    /\ Len(Top.remaining) = 0
    /\ IF Len(stack) = 1
       THEN /\ stack' = <<>>
            /\ ret' = Dict(<<>>)
       ELSE /\ stack' = [SubSeq(stack, 1, Len(stack) - 1) EXCEPT
                            ![Len(stack) - 1].out = @ \o <<[key |-> Top.group, value |-> Dict(<<>>)]>>]
            /\ UNCHANGED ret
    /\ UNCHANGED <<nodes, edges, call, raised, text, a_group_node, remaining_canvas_nodes>>

\* The comprehension of the innermost call reaches its next subgroup v and calls
\* recurrsively_find_nested_groups(v, found_children_nodes).
resolver_recurse ==
    /\ stack # <<>>
    /\ Len(Top.remaining) > 0
    /\ NextGroup(Top) # 0
    /\ IF Len(stack) < RecursionLimit
       THEN /\ stack' = [stack EXCEPT ![Len(stack)].i = NextGroup(Top) + 1]
                           \o <<Frame(FoundChildren(Top)[NextGroup(Top)], FoundChildren(Top))>>
            /\ UNCHANGED <<raised, ret>>
       ELSE /\ stack' = <<>>
            /\ raised' = "RecursionError"
            /\ ret' = None
    /\ UNCHANGED <<nodes, edges, call, text, a_group_node, remaining_canvas_nodes>>

\* The comprehension of the innermost call is exhausted and the call reads the unbound
\* name found_group_children: NameError, which no caller handles, ends every frame.
resolver_raise ==
    /\ stack # <<>>
    /\ Len(Top.remaining) > 0
    /\ NextGroup(Top) = 0
    /\ stack' = <<>>
    /\ raised' = "NameError"
    /\ ret' = None
    /\ UNCHANGED <<nodes, edges, call, text, a_group_node, remaining_canvas_nodes>>

\* The boxes of the text nodes of a run: the innermost square, inside every other
\* square, and the square apart, inside none.
LeafBoxes == {NestBox(NestDepth), ApartBox}

\* The candidate lists of a run: at most one node per identifier, each a group at any
\* box or a text node at a leaf box, in identifier order, with or without the group
\* itself in front.
InitRun ==
    /\ nodes = <<>>
    /\ edges = <<>>
    /\ call = Idle
    /\ raised = "none"
    /\ ret = None
    /\ text = None
    /\ stack = <<>>
    /\ a_group_node \in {ResolverGroup("O", b) : b \in NestBoxes}
    /\ \E present \in SUBSET (1..MaxRemaining), self_in \in BOOLEAN :
          \E f \in [present -> (NestBoxes \X {"group"}) \cup (LeafBoxes \X {"text"})] :
             LET order == SelectSeq([i \in 1..MaxRemaining |-> i], LAMBDA i : i \in present)
                 others == [j \in DOMAIN order |->
                              IF f[order[j]][2] = "group"
                              THEN ResolverGroup(IdNames[order[j]], f[order[j]][1])
                              ELSE ResolverLeaf(IdNames[order[j]], f[order[j]][1])]
             IN  remaining_canvas_nodes = (IF self_in THEN <<a_group_node>> ELSE <<>>) \o others

NextRun == resolver_call \/ resolver_return_empty \/ resolver_recurse \/ resolver_raise

\* A call, once entered, is run by the interpreter to its end: each enabled step is taken.
SpecResolverRun == InitRun /\ [][NextRun]_vars /\ WF_vars(NextRun)

\* The call has ended, by returning or by raising.
Done == call.name = "recurrsively_find_nested_groups" /\ stack = <<>>

\* No more frames than candidate nodes and the frame of the first call.
DepthBounded == Len(stack) <= Len(remaining_canvas_nodes) + 1

\* The children found by a call never include the call's own group, so every nested
\* call receives a list in which it finds fewer children than it received.
ChildrenExcludeGroup ==
    \A k \in DOMAIN stack :
        /\ \A j \in DOMAIN FoundChildren(stack[k]) : FoundChildren(stack[k])[j].id # stack[k].group.id
        /\ k > 1 => /\ stack[k].remaining = FoundChildren(stack[k - 1])
                    /\ Len(FoundChildren(stack[k])) < Len(stack[k].remaining)

\* C11: the resolver ends on every group and every finite list of candidates, groups
\* of identical bounds included: a nested call receives only the children found for
\* the current group, never that group itself, so the number of frames stays within
\* the number of nodes, the interpreter's recursion limit is never met, and the call
\* eventually returns or raises.
C11_Terminates ==
    /\ [](DepthBounded /\ ChildrenExcludeGroup /\ raised # "RecursionError")
    /\ <>Done

\* The recursion has gone through two distinct groups of identical bounds, each
\* containing the other, and stands in the second one's call with no child left.
C11_Witness ==
    /\ Len(stack) = 3
    /\ stack[2].group.id # stack[3].group.id
    /\ stack[2].group.x = stack[3].group.x /\ stack[2].group.y = stack[3].group.y
    /\ stack[2].group.width = stack[3].group.width
    /\ stack[2].group.height = stack[3].group.height
    /\ GroupNode_does_contain(stack[2].group, stack[3].group)
    /\ GroupNode_does_contain(stack[3].group, stack[2].group)
    /\ FoundChildren(stack[3]) = <<>>

====
